---- MODULE Spec2Model ----
(***************************************************************************)
(* Model of hackathon/script.js: the page script of a static landing page. *)
(* main() initialises five controllers in order (theme, table-of-contents  *)
(* spy, accordion, copy buttons, quick scroll); afterwards the script only *)
(* reacts to browser events: clicks, IntersectionObserver callbacks, the   *)
(* settling of clipboard writes and the expiry of the toast timer.         *)
(*                                                                         *)
(* Strings that the script takes apart (href attributes, element ids) are  *)
(* sequences of one-character strings.  Toast messages are pairs           *)
(* <<label, outcome>>.                                                     *)
(***************************************************************************)
EXTENDS Integers, Sequences, FiniteSets, TLC

VARIABLES
    dom,          \* element id -> "none" | "button" | "other": the page markup
    matchMedia,   \* "absent" | "light" | "dark": window.matchMedia and what it reports
    hasClipboard, \* navigator.clipboard is defined
    storage,      \* localStorage["hacksong_theme"]: NULL or a string
    dataTheme,    \* document.documentElement.dataset.theme
    pc,           \* position of main()
    listeners,    \* ids of the elements a click listener is attached to
    toastText,    \* #toast.textContent
    toastHidden,  \* #toast.hidden
    toast_t,      \* toast._t: the handle of the last timer set
    timers,       \* handles of the pending timeouts
    timerSeq,     \* the handle the next setTimeout returns
    links,        \* the href attribute of each anchor of #toc, in document order
    elemIds,      \* ids for which document.getElementById finds an element
    idToLink,     \* initTocSpy's map: set of <<id, anchor index>>
    observed,     \* ids of the sections the IntersectionObserver observes
    ratio,        \* observed id -> intersection ratio last reported (0: not intersecting)
    active,       \* anchors carrying the class is-active
    aria,         \* accordion item -> aria-expanded attribute of its button
    panelHidden,  \* accordion item -> hidden flag of the button's next sibling
    hasPanel,     \* accordion item -> the button has a next sibling element
    calls,        \* the copyToClipboard calls made so far, in order
    microtasks,   \* continuations of settled clipboard writes, not yet run
    bodyTemps,    \* calls whose temporary textarea is a child of document.body
    ev            \* the last event handled and what its handler did

vars == <<dom, matchMedia, hasClipboard, storage, dataTheme, pc, listeners,
          toastText, toastHidden, toast_t, timers, timerSeq,
          links, elemIds, idToLink, observed, ratio, active,
          aria, panelHidden, hasPanel, calls, microtasks, bodyTemps, ev>>

envVars   == <<dom, matchMedia, hasClipboard, links, elemIds, hasPanel>>
themeVars == <<storage, dataTheme>>
toastVars == <<toastText, toastHidden, toast_t, timers, timerSeq>>
tocVars   == <<idToLink, observed, ratio, active>>
accVars   == <<aria, panelHidden>>
copyVars  == <<calls, microtasks, bodyTemps>>


(* Bounds of the model. *)
MaxToasts == 3
NumLinks == 3
MaxRatio == 3
NumItems == 2
MaxCopyCalls == 2

ButtonIds == {"toggleTheme", "copySignup", "copyRepo", "copyChecklist",
              "copyAllLinks", "scrollFlow", "backTop"}
CopyIds == {"copySignup", "copyRepo", "copyChecklist", "copyAllLinks"}
ElemNames == ButtonIds \cup {"toast", "toc", "accordion", "flow"}

NULL == "<null>"

\* kind: "click" | "timer" | "io" | "settle" | "microtask"; target: what was
\* clicked; index: which anchor, item, call or timer; prevented: the handler
\* called preventDefault; scrolled: where it scrolled to; threw: the handler
\* ended with an uncaught error or a rejected promise; before: the theme on
\* the document root when a press of the theme toggle began.
NoEvent == [kind |-> "none", target |-> "none", index |-> 0, prevented |-> FALSE,
            scrolled |-> "none", threw |-> FALSE, before |-> NULL]

Event(k, t, i, p, s, x) ==
    [kind |-> k, target |-> t, index |-> i, prevented |-> p, scrolled |-> s, threw |-> x,
     before |-> NULL]

(***************************************************************************)
(* mustQuery and toast                                                     *)
(***************************************************************************)

\* mustQuery(selector) throws when the element is missing.
MustQueryThrows(id) == dom[id] = "none"

\* Faulty variant: the pending hide is not cancelled.
ClearTimeoutForgotten(ts, h) == ts

\* window.clearTimeout(h): an unknown or expired handle is ignored.
ClearTimeout(ts, h) == ts \ {h}

\* toast(message): TRUE when it threw (mustQuery("#toast") failed).
ToastThrows == MustQueryThrows("toast")

Toast(msg) ==
    IF ToastThrows
    THEN UNCHANGED toastVars
    ELSE /\ toastText' = msg
         /\ toastHidden' = FALSE
         /\ timers' = ClearTimeout(timers, toast_t) \cup {timerSeq}
         /\ toast_t' = timerSeq
         /\ timerSeq' = timerSeq + 1

\* The callback of the timeout set by toast: el.hidden = true.
TimerFires ==
    /\ pc \in {"done", "threw"}
    /\ microtasks = <<>>
    /\ \E h \in timers :
         /\ timers' = timers \ {h}
         /\ toastHidden' = TRUE
         /\ ev' = Event("timer", "toast", h, FALSE, "none", FALSE)
    /\ UNCHANGED <<envVars, themeVars, pc, listeners, toastText, toast_t, timerSeq,
                   tocVars, accVars, copyVars>>

(***************************************************************************)
(* Theme                                                                   *)
(***************************************************************************)

GetTheme(v) == IF v = "light" THEN "light" ELSE "dark"

\* !saved: null and the empty string are falsy.
Falsy(v) == v = NULL \/ v = ""

\* window.matchMedia && window.matchMedia("(prefers-color-scheme: light)").matches
PrefersLight == matchMedia = "light"

StartupTheme(saved) ==
    IF Falsy(saved)
    THEN (IF PrefersLight THEN "light" ELSE "dark")
    ELSE GetTheme(saved)

ThemeMessage(theme) == IF theme = "light" THEN <<"theme", "light">> ELSE <<"theme", "dark">>

SetTheme(theme) ==
    /\ dataTheme' = theme
    /\ storage' = theme
    /\ Toast(ThemeMessage(theme))

ToggleNext(v) == IF GetTheme(v) = "dark" THEN "light" ELSE "dark"

\* Faulty variant: startup looks the toast element up and fails without it.
InitThemeToggleNeedsToast ==
    /\ pc = "initThemeToggle"
    /\ dataTheme' = StartupTheme(storage)
    /\ listeners' = IF dom["toggleTheme"] = "button" /\ ~MustQueryThrows("toast")
                    THEN listeners \cup {"toggleTheme"} ELSE listeners
    /\ pc' = IF MustQueryThrows("toast") THEN "threw" ELSE "initTocSpy"
    /\ UNCHANGED <<envVars, storage, toastVars, tocVars, accVars, copyVars, ev>>

InitThemeToggle ==
    /\ pc = "initThemeToggle"
    /\ dataTheme' = StartupTheme(storage)
    /\ listeners' = IF dom["toggleTheme"] = "button"
                    THEN listeners \cup {"toggleTheme"} ELSE listeners
    /\ pc' = "initTocSpy"
    /\ UNCHANGED <<envVars, storage, toastVars, tocVars, accVars, copyVars, ev>>

Idle == pc \in {"done", "threw"} /\ microtasks = <<>>

ClickToggleTheme ==
    /\ Idle
    /\ dom["toggleTheme"] # "none"
    /\ timerSeq <= MaxToasts
    /\ IF "toggleTheme" \in listeners
       THEN /\ SetTheme(ToggleNext(storage))
            /\ ev' = [Event("click", "toggleTheme", 0, FALSE, "none", ToastThrows)
                      EXCEPT !.before = dataTheme]
       ELSE /\ ev' = [Event("click", "toggleTheme", 0, FALSE, "none", FALSE)
                      EXCEPT !.before = dataTheme]
            /\ UNCHANGED <<themeVars, toastVars>>
    /\ UNCHANGED <<envVars, pc, listeners, tocVars, accVars, copyVars>>

(***************************************************************************)
(* Table of contents: strings                                              *)
(***************************************************************************)

\* An anchor without href attribute: getAttribute returns null.
NoHref == <<"null">>

\* a.getAttribute("href") || ""
HrefOf(h) == IF h = NoHref THEN <<>> ELSE h

Positions(s, c) == {i \in 1..Len(s) : s[i] = c}

Min(S) == CHOOSE x \in S : \A y \in S : x <= y
Max(S) == CHOOSE x \in S : \A y \in S : x >= y

\* s.replace("#", ""): removes the first "#" only.
ReplaceHash(s) ==
    IF Positions(s, "#") = {} THEN s
    ELSE LET i == Min(Positions(s, "#"))
         IN  SubSeq(s, 1, i - 1) \o SubSeq(s, i + 1, Len(s))

\* s.trim()
Trim(s) ==
    LET inner == {i \in 1..Len(s) : s[i] # " "}
    IN  IF inner = {} THEN <<>> ELSE SubSeq(s, Min(inner), Max(inner))

\* s.startsWith("#")
StartsWithHash(s) == Len(s) > 0 /\ s[1] = "#"

\* s.slice(1)
Slice1(s) == SubSeq(s, 2, Len(s))

\* The key initTocSpy files an anchor under.
LinkKey(h) == Trim(ReplaceHash(HrefOf(h)))

\* The id the click handler looks up.
ClickId(h) == Slice1(HrefOf(h))

\* document.getElementById(id)
ElementExists(id) == id \in elemIds

(***************************************************************************)
(* Table of contents: initTocSpy                                           *)
(***************************************************************************)

\* idToLink after links.forEach: a later anchor with the same key replaces
\* an earlier one; an empty key is not filed.
BuildIdToLink(ls) ==
    LET keys == {LinkKey(ls[i]) : i \in 1..Len(ls)} \ {<<>>}
    IN  [k \in keys |-> Max({i \in 1..Len(ls) : LinkKey(ls[i]) = k})]

\* Array.from(idToLink.keys()): the keys in the order they were first set.
RECURSIVE KeysInOrder(_, _)
KeysInOrder(ls, seen) ==
    IF ls = <<>> THEN <<>>
    ELSE LET k == LinkKey(Head(ls))
         IN  IF k = <<>> \/ k \in seen
             THEN KeysInOrder(Tail(ls), seen)
             ELSE <<k>> \o KeysInOrder(Tail(ls), seen \cup {k})

\* .map(getElementById).filter(Boolean)
Sections(ls) == SelectSeq(KeysInOrder(ls, {}), ElementExists)

\* Faulty variant: the other links keep their mark.
SetActiveKeepsOthers(map, activeId) ==
    active \cup (IF activeId \in DOMAIN map THEN {map[activeId]} ELSE {})

\* setActive(activeId)
SetActive(map, activeId) ==
    IF activeId \in DOMAIN map THEN {map[activeId]} ELSE {}

\* Faulty variant: a missing #toc is skipped and main() goes on.
InitTocSpySkipsMissingToc ==
    /\ pc = "initTocSpy"
    /\ pc' = "initAccordion"
    /\ IF MustQueryThrows("toc")
       THEN UNCHANGED <<listeners, tocVars>>
       ELSE /\ idToLink' = BuildIdToLink(links)
            /\ observed' = Sections(links)
            /\ ratio' = [s \in {Sections(links)[i] : i \in 1..Len(Sections(links))} |-> 0]
            /\ listeners' = listeners \cup {"toc"}
            /\ UNCHANGED active
    /\ UNCHANGED <<envVars, themeVars, toastVars, accVars, copyVars, ev>>

InitTocSpy ==
    /\ pc = "initTocSpy"
    /\ IF MustQueryThrows("toc")
       THEN /\ pc' = "threw"
            /\ UNCHANGED <<listeners, tocVars>>
       ELSE /\ idToLink' = BuildIdToLink(links)
            /\ observed' = Sections(links)
            /\ ratio' = [s \in {Sections(links)[i] : i \in 1..Len(Sections(links))} |-> 0]
            /\ listeners' = listeners \cup {"toc"}
            /\ pc' = "initAccordion"
            /\ UNCHANGED active
    /\ UNCHANGED <<envVars, themeVars, toastVars, accVars, copyVars, ev>>

(***************************************************************************)
(* Table of contents: the IntersectionObserver callback                    *)
(***************************************************************************)

\* Array.prototype.sort is stable: insertion of x behind the entries that
\* do not come after it under the comparator (b.ratio || 0) - (a.ratio || 0).
RECURSIVE InsertDesc(_, _)
InsertDesc(x, s) ==
    IF s = <<>> THEN <<x>>
    ELSE IF Head(s).intersectionRatio >= x.intersectionRatio
         THEN <<Head(s)>> \o InsertDesc(x, Tail(s))
         ELSE <<x>> \o s

RECURSIVE SortDesc(_)
SortDesc(s) ==
    IF s = <<>> THEN <<>>
    ELSE InsertDesc(s[Len(s)], SortDesc(SubSeq(s, 1, Len(s) - 1)))

IsIntersecting(e) == e.isIntersecting

Visible(entries) == SortDesc(SelectSeq(entries, IsIntersecting))

\* The observer callback: what is active afterwards.
SpyCallback(map, act, entries) ==
    LET visible == Visible(entries)
    IN  IF visible # <<>> /\ visible[1].target # <<>>
        THEN SetActive(map, visible[1].target)
        ELSE act

\* The entries of one callback: the sections of U, in observation order,
\* with the ratios r.
RECURSIVE EntriesOf(_, _, _)
EntriesOf(obs, U, r) ==
    IF obs = <<>> THEN <<>>
    ELSE IF Head(obs) \in U
         THEN <<[target |-> Head(obs), isIntersecting |-> r[Head(obs)] > 0,
                 intersectionRatio |-> r[Head(obs)]]>> \o EntriesOf(Tail(obs), U, r)
         ELSE EntriesOf(Tail(obs), U, r)

ObservedSet == {observed[i] : i \in 1..Len(observed)}

Intersection ==
    /\ Idle
    /\ \E U \in (SUBSET ObservedSet) \ {{}} :
       \E r \in [U -> 0..MaxRatio] :
         /\ ratio' = [s \in ObservedSet |-> IF s \in U THEN r[s] ELSE ratio[s]]
         /\ active' = SpyCallback(idToLink, active, EntriesOf(observed, U, r))
         /\ ev' = Event("io", "sections", Cardinality(U), FALSE, "none", FALSE)
    /\ UNCHANGED <<envVars, themeVars, pc, listeners, toastVars, idToLink, observed,
                   accVars, copyVars>>

(***************************************************************************)
(* Table of contents: clicks                                               *)
(***************************************************************************)

\* The click handler runs up to setActive for this href.
ClickResolves(h) == StartsWithHash(HrefOf(h)) /\ ElementExists(ClickId(h))

ClickTocLink ==
    /\ Idle
    /\ \E i \in 1..Len(links) :
         IF "toc" \in listeners /\ ClickResolves(links[i])
         THEN /\ active' = SetActive(idToLink, ClickId(links[i]))
              /\ ev' = Event("click", "tocLink", i, TRUE, "section", FALSE)
         ELSE /\ ev' = Event("click", "tocLink", i, FALSE, "none", FALSE)
              /\ UNCHANGED active
    /\ UNCHANGED <<envVars, themeVars, pc, listeners, toastVars, idToLink, observed,
                   ratio, accVars, copyVars>>

\* A click inside #toc that is not inside an anchor: closest("a") is null.
ClickTocOther ==
    /\ Idle
    /\ dom["toc"] # "none"
    /\ ev' = Event("click", "tocOther", 0, FALSE, "none", FALSE)
    /\ UNCHANGED <<envVars, themeVars, pc, listeners, toastVars, tocVars, accVars, copyVars>>

(***************************************************************************)
(* Accordion                                                               *)
(***************************************************************************)

Items == 1..NumItems

InitAccordion ==
    /\ pc = "initAccordion"
    /\ listeners' = IF dom["accordion"] = "none"
                    THEN listeners ELSE listeners \cup {"accordion"}
    /\ pc' = "initCopyButtons"
    /\ UNCHANGED <<envVars, themeVars, toastVars, tocVars, accVars, copyVars, ev>>

\* btn.getAttribute("aria-expanded") === "true"
Expanded(a) == a = "true"

\* The attribute the handler writes.
NextAria(a) == IF Expanded(a) THEN "false" ELSE "true"

\* Faulty variant: the panel is hidden when it should be shown.
NextHiddenInverted(a) == ~Expanded(a)

\* The hidden flag the handler writes to the panel.
NextHidden(a) == Expanded(a)

\* A click on (or inside) the button.acc__item of item i.
ClickTrigger ==
    /\ Idle
    /\ dom["accordion"] # "none"
    /\ \E i \in Items :
         /\ ev' = Event("click", "trigger", i, FALSE, "none", FALSE)
         /\ IF "accordion" \in listeners /\ hasPanel[i]
            THEN /\ aria' = [aria EXCEPT ![i] = NextAria(aria[i])]
                 /\ panelHidden' = [panelHidden EXCEPT ![i] = NextHidden(aria[i])]
            ELSE UNCHANGED accVars
    /\ UNCHANGED <<envVars, themeVars, pc, listeners, toastVars, tocVars, copyVars>>

\* A click inside the container outside every trigger: closest(...) is null.
ClickAccordionOther ==
    /\ Idle
    /\ dom["accordion"] # "none"
    /\ ev' = Event("click", "accordionOther", 0, FALSE, "none", FALSE)
    /\ UNCHANGED <<envVars, themeVars, pc, listeners, toastVars, tocVars, accVars, copyVars>>

(***************************************************************************)
(* Copy buttons                                                            *)
(***************************************************************************)

\* The label each button's call carries.
Label(id) ==
    CASE id = "copySignup" -> "signup"
      [] id = "copyRepo" -> "repo"
      [] id = "copyChecklist" -> "checklist"
      [] OTHER -> "links"

InitCopyButtons ==
    /\ pc = "initCopyButtons"
    /\ listeners' = listeners \cup {id \in CopyIds : dom[id] = "button"}
    /\ pc' = "initQuickScroll"
    /\ UNCHANGED <<envVars, themeVars, toastVars, tocVars, accVars, copyVars, ev>>

\* document.execCommand("copy") returns true, returns false or throws.
ExecOutcomes == {"true", "false", "throw"}

AppendChild(body, c) == body \cup {c}
RemoveChild(body, c) == body \ {c}

\* The catch block of call c: document.body afterwards.
FallbackBody(body, c, ok) ==
    IF ok = "throw" THEN AppendChild(body, c)
    ELSE RemoveChild(AppendChild(body, c), c)

FallbackMessage(label, ok) ==
    IF ok = "true" THEN <<label, "copied">> ELSE <<label, "failed">>

\* The record of call c after its catch block ran with execCommand outcome ok.
AfterFallback(call, ok) ==
    [call EXCEPT !.st = IF ok = "throw" \/ ToastThrows THEN "rejected" ELSE "fulfilled",
                 !.created = @ + 1,
                 !.toasts = @ + (IF ok = "throw" \/ ToastThrows THEN 0 ELSE 1),
                 !.exec = ok]

\* The catch block: textarea, execCommand, removal, toast.
Fallback(c, call, ok) ==
    /\ bodyTemps' = FallbackBody(bodyTemps, c, ok)
    /\ IF ok = "throw" THEN UNCHANGED toastVars
       ELSE Toast(FallbackMessage(call.label, ok))

NewCall(id, n) ==
    [label |-> Label(id), st |-> "pending", created |-> 0, toasts |-> 0,
     exec |-> "none", write |-> "none", rank |-> 0,
     overlaps |-> \E k \in 1..n : calls[k].st = "pending"]

\* A click on a copy button: copyToClipboard runs up to its await.  Without
\* navigator.clipboard the call to writeText throws inside the try block.
ClickCopy ==
    /\ Idle
    /\ Len(calls) < MaxCopyCalls
    /\ \E id \in CopyIds :
         /\ dom[id] # "none"
         /\ IF id \notin listeners
            THEN /\ ev' = Event("click", id, 0, FALSE, "none", FALSE)
                 /\ UNCHANGED <<copyVars, toastVars>>
            ELSE LET c == Len(calls) + 1
                     call == NewCall(id, Len(calls))
                 IN  IF hasClipboard
                     THEN /\ calls' = Append(calls, call)
                          /\ ev' = Event("click", id, c, FALSE, "none", FALSE)
                          /\ UNCHANGED <<microtasks, bodyTemps, toastVars>>
                     ELSE \E ok \in ExecOutcomes :
                          /\ calls' = Append(calls, AfterFallback(call, ok))
                          /\ Fallback(c, call, ok)
                          /\ ev' = Event("click", id, c, FALSE, "none",
                                         AfterFallback(call, ok).st = "rejected")
                          /\ UNCHANGED microtasks
    /\ UNCHANGED <<envVars, themeVars, pc, listeners, tocVars, accVars>>

Settled == {c \in 1..Len(calls) : calls[c].write # "none"}

\* The platform resolves or rejects the write of a pending call: the
\* continuation of its await is queued as a microtask.
Settle ==
    /\ pc \in {"done", "threw"}
    /\ \E c \in 1..Len(calls) :
       \E w \in {"resolved", "rejected"} :
         /\ calls[c].st = "pending"
         /\ calls[c].write = "none"
         /\ calls' = [calls EXCEPT ![c].write = w, ![c].rank = Cardinality(Settled) + 1]
         /\ microtasks' = Append(microtasks, c)
         /\ ev' = Event("settle", w, c, FALSE, "none", FALSE)
    /\ UNCHANGED <<envVars, themeVars, pc, listeners, toastVars, tocVars, accVars, bodyTemps>>

\* The microtask queue is served first in, first out.
NextMicrotask(q) == Head(q)

\* The continuation of call c: the rest of the try block when the write
\* resolved (a throwing toast lands in the catch block too), else the
\* catch block.
RunMicrotask ==
    /\ microtasks # <<>>
    /\ LET c == NextMicrotask(microtasks)
           call == calls[c]
       IN  /\ microtasks' = SelectSeq(microtasks, LAMBDA x : x # c)
           /\ IF call.write = "resolved" /\ ~ToastThrows
              THEN /\ Toast(<<call.label, "copied">>)
                   /\ calls' = [calls EXCEPT ![c].st = "fulfilled", ![c].toasts = @ + 1]
                   /\ UNCHANGED bodyTemps
              ELSE \E ok \in ExecOutcomes :
                   /\ Fallback(c, call, ok)
                   /\ calls' = [calls EXCEPT ![c] = AfterFallback(call, ok)]
           /\ ev' = Event("microtask", call.write, c, FALSE, "none",
                          calls'[c].st = "rejected")
    /\ UNCHANGED <<envVars, themeVars, pc, listeners, tocVars, accVars>>

(***************************************************************************)
(* Quick scroll                                                            *)
(***************************************************************************)

InitQuickScroll ==
    /\ pc = "initQuickScroll"
    /\ listeners' = listeners \cup {id \in {"scrollFlow", "backTop"} : dom[id] = "button"}
    /\ pc' = "done"
    /\ UNCHANGED <<envVars, themeVars, toastVars, tocVars, accVars, copyVars, ev>>

ClickScrollFlow ==
    /\ Idle
    /\ dom["scrollFlow"] # "none"
    /\ ev' = Event("click", "scrollFlow", 0, FALSE,
                   IF "scrollFlow" \in listeners /\ dom["flow"] # "none"
                   THEN "flow" ELSE "none", FALSE)
    /\ UNCHANGED <<envVars, themeVars, pc, listeners, toastVars, tocVars, accVars, copyVars>>

ClickBackTop ==
    /\ Idle
    /\ dom["backTop"] # "none"
    /\ ev' = Event("click", "backTop", 0, FALSE,
                   IF "backTop" \in listeners THEN "top" ELSE "none", FALSE)
    /\ UNCHANGED <<envVars, themeVars, pc, listeners, toastVars, tocVars, accVars, copyVars>>

(***************************************************************************)
(* main() and the pages it runs on                                         *)
(***************************************************************************)

\* main(): the five initialisers in order; an uncaught error ends it.
Startup ==
    \/ InitThemeToggle
    \/ InitTocSpy
    \/ InitAccordion
    \/ InitCopyButtons
    \/ InitQuickScroll

FullDom == [e \in ElemNames |-> IF e \in ButtonIds THEN "button" ELSE "other"]

\* The page with element e missing.
Without(e) == [FullDom EXCEPT ![e] = "none"]

\* The page on which the element with button id e is not a button.
NotButton(e) == [FullDom EXCEPT ![e] = "other"]

\* The state of the script when it is loaded: nothing has run.
Loaded ==
    /\ pc = "initThemeToggle"
    /\ listeners = {}
    /\ dataTheme = NULL
    /\ toast_t = 0
    /\ timers = {}
    /\ timerSeq = 1
    /\ idToLink = <<>>
    /\ observed = <<>>
    /\ ratio = <<>>
    /\ calls = <<>>
    /\ microtasks = <<>>
    /\ bodyTemps = {}
    /\ ev = NoEvent

A == <<"a">>
B == <<"b">>
C == <<"c">>

\* A well-formed table of contents and FAQ.
PlainToc ==
    /\ links = [i \in 1..NumLinks |-> <<"#">> \o (IF i = 1 THEN A ELSE IF i = 2 THEN B ELSE C)]
    /\ elemIds = {A, B, C}
    /\ active = {}

PlainAccordion ==
    /\ aria = [i \in Items |-> "false"]
    /\ panelHidden = [i \in Items |-> TRUE]
    /\ hasPanel = [i \in Items |-> TRUE]

PlainToast ==
    /\ toastText = <<>>
    /\ toastHidden = TRUE

StoredValues == {NULL, "", "light", "dark", "auto"}

(***************************************************************************)
(* Theme: any stored value, any system preference                          *)
(***************************************************************************)

InitTheme ==
    /\ Loaded /\ PlainToc /\ PlainAccordion /\ PlainToast
    /\ dom \in {FullDom, Without("toggleTheme"), NotButton("toggleTheme")}
    /\ matchMedia \in {"absent", "light", "dark"}
    /\ storage \in StoredValues
    /\ hasClipboard = TRUE

NextTheme == Startup \/ ClickToggleTheme \/ TimerFires

SpecTheme == InitTheme /\ [][NextTheme]_vars

\* A press of the theme toggle that its click listener handled.
TogglePressed(e) ==
    e.kind = "click" /\ e.target = "toggleTheme" /\ "toggleTheme" \in listeners

\* C1: every press of the theme toggle flips the theme on the document root
\* to the other value of {light, dark} and writes the new value to local
\* storage, and the second of two presses in a row restores the theme that
\* was applied before the first.
C1_ToggleTwiceRestores ==
    [][TogglePressed(ev') =>
         /\ dataTheme' \in {"light", "dark"}
         /\ dataTheme' # dataTheme
         /\ storage' = dataTheme'
         /\ (TogglePressed(ev) => dataTheme' = ev.before)]_vars

\* C2: startup applies the system preference when nothing is stored, applies
\* what getTheme() makes of the stored value when a value is stored, whatever
\* the system preference, and writes nothing to local storage.
C2_StartupPolicy ==
    [][pc = "initThemeToggle" =>
         /\ storage' = storage
         /\ (storage = NULL =>
               dataTheme' = (IF matchMedia = "light" THEN "light" ELSE "dark"))
         /\ (storage # NULL => dataTheme' = GetTheme(storage))]_vars

(***************************************************************************)
(* Copy and toast: overlapping copies, theme toggles, the timer            *)
(***************************************************************************)

\* A page with two working copy buttons, one of them the aggregate button.
CopyPage == [FullDom EXCEPT !["copyRepo"] = "none", !["copyChecklist"] = "other"]

InitCopy ==
    /\ Loaded /\ PlainToc /\ PlainAccordion
    /\ toastText = <<>>
    /\ toastHidden \in BOOLEAN
    /\ dom \in {CopyPage, [CopyPage EXCEPT !["toast"] = "none"]}
    /\ matchMedia = "dark"
    /\ storage = NULL
    /\ hasClipboard \in BOOLEAN

NextCopy ==
    Startup \/ ClickCopy \/ Settle \/ RunMicrotask \/ ClickToggleTheme \/ TimerFires

SpecCopy == InitCopy /\ [][NextCopy]_vars

\* The toast on the page as shipped: copies, theme toggles and the timer.
\* The browser runs queued microtasks and expired timers.
InitToast ==
    /\ InitCopy
    /\ dom = CopyPage
    /\ toastHidden
    /\ hasClipboard

FairToast ==
    InitToast /\ [][NextCopy]_vars /\ WF_vars(RunMicrotask) /\ WF_vars(TimerFires)

Finished(c) == calls[c].st # "pending"

\* The toast a finished call showed.
CallMessage(call) ==
    IF call.write = "resolved" THEN <<call.label, "copied">>
    ELSE FallbackMessage(call.label, call.exec)

\* The event was the completion of call c.
Completed(e, c) == e.kind = "microtask" /\ e.index = c

\* C5: on a page with a toast element, a call whose clipboard write was
\* rejected has created exactly one temporary element, which is no longer
\* attached when the call has ended, whatever the legacy command did; it has
\* shown a success toast when the command reported success and a failure
\* toast when it reported failure; a call whose write resolved created none.
C5_FallbackCleansUp ==
    dom["toast"] # "none" =>
      \A c \in 1..Len(calls) :
        Finished(c) =>
          /\ calls[c].write = "rejected" =>
               /\ calls[c].created = 1
               /\ c \notin bodyTemps
               /\ calls[c].exec \in {"true", "false"} => calls[c].toasts = 1
               /\ (Completed(ev, c) /\ calls[c].exec \in {"true", "false"}) =>
                    toastText = FallbackMessage(calls[c].label, calls[c].exec)
          /\ calls[c].write = "resolved" => calls[c].created = 0

\* C9: on a page with a toast element, once every call of a run in which
\* a copy was started while another was pending has ended, each call has
\* shown exactly one toast, no temporary element is attached, and the toast
\* text is that of the call whose write settled last.
C9_OverlappingCopies ==
    ( /\ dom["toast"] # "none"
      /\ ev.kind = "microtask"
      /\ \E c \in 1..Len(calls) : calls[c].overlaps
      /\ \A c \in 1..Len(calls) : Finished(c) /\ calls[c].write # "none" ) =>
        /\ \A c \in 1..Len(calls) : calls[c].toasts = 1
        /\ bodyTemps = {}
        /\ \A c \in 1..Len(calls) :
             calls[c].rank = Len(calls) => toastText = CallMessage(calls[c])

\* A handler that called toast on a page with a toast element.
ToastedBy(e) ==
    \/ TogglePressed(e)
    \/ /\ e.kind = "microtask" \/ (e.kind = "click" /\ e.target \in CopyIds)
       /\ e.index > 0
       /\ calls[e.index].toasts = 1

\* C6: at most one hide timer is pending; a timer that fires is the one the
\* most recent toast call set; after a handler that called toast the toast is
\* visible with that call's text, and timers and settling writes leave the
\* text alone; once toast calls stop the toast is eventually hidden.
C6_ToastTimer ==
    /\ [](Cardinality(timers) <= 1)
    /\ [][ev'.kind = "timer" => ev'.index = toast_t]_vars
    /\ [](dom["toast"] # "none" /\ ToastedBy(ev) =>
            /\ ~toastHidden
            /\ timers = {toast_t}
            /\ toastText = (IF TogglePressed(ev) THEN ThemeMessage(dataTheme)
                            ELSE CallMessage(calls[ev.index])))
    /\ [][ev'.kind \in {"timer", "settle"} => toastText' = toastText]_vars
    /\ \A k \in 2..(MaxToasts + MaxCopyCalls + 1) :
         (timerSeq = k) ~> (toastHidden \/ timerSeq > k)

\* A copy completion replaced an earlier toast and its timer is the only
\* one pending.
C6_Witness ==
    /\ ev.kind = "microtask"
    /\ toast_t >= 2
    /\ timers = {toast_t}
    /\ ~toastHidden

(***************************************************************************)
(* Section spy: every section exists, any anchor may point to any of them  *)
(***************************************************************************)

QuietPage ==
    /\ Loaded /\ PlainAccordion /\ PlainToast
    /\ dom = FullDom
    /\ matchMedia = "dark"
    /\ storage = NULL
    /\ hasClipboard = TRUE

InitSpy ==
    /\ QuietPage
    /\ links \in [1..NumLinks -> {<<"#">> \o A, <<"#">> \o B, <<"#">> \o C}]
    /\ elemIds = {A, B, C}
    /\ active \in {{}, {1}}

NextToc == Startup \/ Intersection \/ ClickTocLink \/ ClickTocOther

SpecSpy == InitSpy /\ [][NextToc]_vars

IntersectingNow == {s \in ObservedSet : ratio[s] > 0}

DistinctRatios ==
    \A s, t \in IntersectingNow : s # t => ratio[s] # ratio[t]

\* C3: after every update of the watcher in which some observed section
\* intersects the viewport (ratios distinct), the one active link is the link
\* of the section with the highest ratio among all intersecting sections.
C3_HighestRatioActive ==
    (ev.kind = "io" /\ IntersectingNow # {} /\ DistinctRatios) =>
      \E s \in IntersectingNow :
        /\ \A t \in IntersectingNow : ratio[t] <= ratio[s]
        /\ active = {idToLink[s]}

(***************************************************************************)
(* Table-of-contents clicks: any href, any set of existing elements        *)
(***************************************************************************)

Hrefs == {<<"#">> \o A, <<"#">> \o B, <<"#", " ">> \o A, A, <<"#">>, NoHref}

InitToc ==
    /\ QuietPage
    /\ links \in [1..NumLinks -> Hrefs]
    /\ elemIds \in SUBSET {A, B, <<" ">> \o A}
    /\ active \in {{}, {1}}

SpecToc == InitToc /\ [][NextToc]_vars

\* The event was a click on anchor i of the table of contents.
LinkClicked(e, i) == e.kind = "click" /\ e.target = "tocLink" /\ e.index = i

\* C4 as stated: a click on any anchor of the table of contents prevents the
\* default navigation and leaves exactly that anchor active.
C4_ClickMarksAnyLink ==
    \A i \in 1..Len(links) :
      LinkClicked(ev, i) => ev.prevented /\ active = {i}

\* The anchor's href is "#" followed by the id of an existing element.
PointsToElement(i) ==
    /\ Len(links[i]) > 1
    /\ links[i] # NoHref
    /\ links[i][1] = "#"
    /\ SubSeq(links[i], 2, Len(links[i])) \in elemIds

\* The id has no blank at either end, and no later anchor has an href that
\* names the same id once its first "#" is removed and it is trimmed.
FiledUnderOwnId(i) ==
    /\ links[i][2] # " "
    /\ links[i][Len(links[i])] # " "
    /\ \A j \in (i + 1)..Len(links) : LinkKey(links[j]) # SubSeq(links[i], 2, Len(links[i]))

\* C4 amended: a click on an anchor whose href is "#" followed by the id of
\* an existing element (no blank around the id, no later anchor filed under
\* the same id) prevents the default navigation and leaves exactly that anchor
\* active, in the same handler run and whatever the watcher reported; a
\* click on an anchor that does not point to an existing element neither
\* prevents the default nor changes which link is active.
C4_ClickMarksResolvedLink ==
    [][\A i \in 1..Len(links) :
         LinkClicked(ev', i) =>
           /\ (PointsToElement(i) /\ FiledUnderOwnId(i)) =>
                ev'.prevented /\ active' = {i}
           /\ ~PointsToElement(i) => ~ev'.prevented /\ active' = active]_vars

\* A click on the first anchor moved the mark away from the anchor the
\* watcher had marked.
C4_Witness ==
    /\ LinkClicked(ev, 1)
    /\ PointsToElement(1)
    /\ FiledUnderOwnId(1)
    /\ \E s \in ObservedSet : ratio[s] > 0 /\ idToLink[s] # 1
    /\ active = {1}

(***************************************************************************)
(* Accordion: any markup of the items                                      *)
(***************************************************************************)

InitAcc ==
    /\ Loaded /\ PlainToc /\ PlainToast
    /\ dom = FullDom
    /\ matchMedia = "dark"
    /\ storage = NULL
    /\ hasClipboard = TRUE
    /\ hasPanel \in [Items -> BOOLEAN]
    /\ aria \in [Items -> {NULL, "true", "false"}]
    /\ panelHidden \in [Items -> BOOLEAN]
    /\ \A i \in Items : ~hasPanel[i] => ~panelHidden[i]

NextAcc == Startup \/ ClickTrigger \/ ClickAccordionOther

SpecAcc == InitAcc /\ [][NextAcc]_vars

\* The event was a click on the trigger of item i.
TriggerClicked(e, i) == e.kind = "click" /\ e.target = "trigger" /\ e.index = i

\* C7: for a trigger with a panel, a click while the flag is not "true" sets
\* it to "true" and shows the panel, a click while it is "true" sets it to
\* "false" and hides the panel, so that after a click the panel is hidden
\* exactly when the flag is not "true"; a click elsewhere in the container
\* or on another trigger changes neither the flag nor the panel.
C7_AccordionToggle ==
    /\ [][\A i \in Items :
            /\ (TriggerClicked(ev', i) /\ hasPanel[i]) =>
                 IF aria[i] = "true"
                 THEN aria'[i] = "false" /\ panelHidden'[i]
                 ELSE aria'[i] = "true" /\ ~panelHidden'[i]
            /\ (ev'.kind = "click" /\ ~TriggerClicked(ev', i)) =>
                 aria'[i] = aria[i] /\ panelHidden'[i] = panelHidden[i]]_vars
    /\ [](\A i \in Items :
            (TriggerClicked(ev, i) /\ hasPanel[i]) =>
              (panelHidden[i] <=> aria[i] # "true"))

\* An expanded trigger was clicked and closed while another stays expanded.
C7_Witness ==
    \E i \in Items :
      /\ TriggerClicked(ev, i)
      /\ hasPanel[i]
      /\ aria[i] = "false"
      /\ panelHidden[i]
      /\ \E j \in Items : j # i /\ aria[j] = "true" /\ ~panelHidden[j]

(***************************************************************************)
(* Startup on pages with one element missing or of the wrong kind          *)
(***************************************************************************)

\* A page with one working copy button.
OneButtonPage == [CopyPage EXCEPT !["copyAllLinks"] = "none"]

\* That page, and that page with one more element missing or one more
\* button of the wrong kind.
Pages ==
    {OneButtonPage} \cup {[OneButtonPage EXCEPT ![e] = "none"] : e \in ElemNames}
                    \cup {[OneButtonPage EXCEPT ![b] = "other"] : b \in ButtonIds}

\* A page without #toc has no anchors in it.
TocOf(page) ==
    IF page["toc"] = "none"
    THEN links = <<>> /\ elemIds = {A, B, C} /\ active = {}
    ELSE PlainToc

InitPages ==
    /\ Loaded /\ PlainAccordion /\ PlainToast
    /\ dom \in Pages
    /\ matchMedia = "light"
    /\ storage = NULL
    /\ hasClipboard = TRUE
    /\ TocOf(dom)

\* Startup on every page, then the handlers that call toast.
SpecPages == InitPages /\ [][NextCopy]_vars

Required == {"toc"}
Optional == {"accordion", "toggleTheme", "scrollFlow", "backTop"} \cup CopyIds

\* The listeners main() attaches on a page where it runs to its end.
Attachable ==
    {e \in Optional \cup Required :
       IF e \in ButtonIds THEN dom[e] = "button" ELSE dom[e] # "none"}

\* C8 as stated: without the toast element startup does not finish, and
\* with only an optional element absent it finishes without error.
C8_MissingToastIsFatal ==
    /\ dom["toast"] = "none" => pc # "done"
    /\ (dom["toc"] # "none" /\ \E e \in Optional : dom[e] = "none") => pc # "threw"

\* C8 amended: startup ends with a thrown error exactly on a page without
\* the table-of-contents container; without the toast element it runs to
\* its end, and the error is thrown by the first handler that calls toast;
\* with an optional element absent it runs to its end and attaches the
\* listeners of every other feature and none for the absent one.
C8_MissingTocIsFatal ==
    /\ pc = "threw" => dom["toc"] = "none"
    /\ pc = "done" => dom["toc"] # "none" /\ listeners = Attachable
    /\ pc \notin {"done", "threw"} => ENABLED Startup /\ ~ev.threw
    /\ ev.threw =>
         /\ pc \in {"done", "threw"}
         /\ \/ dom["toast"] = "none" /\ (TogglePressed(ev) \/ ev.kind = "microtask")
            \/ ev.kind = "microtask" /\ calls[ev.index].exec = "throw"

\* Startup ran to its end on the page without toast and a press of the
\* theme toggle then threw.
C8_Witness ==
    /\ pc = "done"
    /\ dom["toast"] = "none"
    /\ TogglePressed(ev)
    /\ ev.threw

(***************************************************************************)
(* Startup without #toc, and every click afterwards                        *)
(***************************************************************************)

\* The page with one copy button, with and without #toc.
InitAbort ==
    /\ Loaded /\ PlainAccordion /\ PlainToast
    /\ dom \in {OneButtonPage, [OneButtonPage EXCEPT !["toc"] = "none"]}
    /\ matchMedia = "light"
    /\ storage \in {NULL, "light"}
    /\ hasClipboard = TRUE
    /\ TocOf(dom)

NextMain ==
    \/ Startup
    \/ ClickToggleTheme
    \/ TimerFires
    \/ ClickTrigger
    \/ ClickAccordionOther
    \/ ClickCopy
    \/ Settle
    \/ RunMicrotask
    \/ ClickScrollFlow
    \/ ClickBackTop

SpecAbort == InitAbort /\ [][NextMain]_vars

\* main() moves from one initialiser to the next, or ends.
MainOrder ==
    {<<"initThemeToggle", "initTocSpy">>, <<"initTocSpy", "initAccordion">>,
     <<"initTocSpy", "threw">>, <<"initAccordion", "initCopyButtons">>,
     <<"initCopyButtons", "initQuickScroll">>, <<"initQuickScroll", "done">>}

\* C10: main() runs the initialisers in the order theme, section spy,
\* accordion, copy, quick scroll; on a page without #toc it ends with an
\* error at the section spy: the startup theme is applied and the theme
\* toggle is bound, no accordion, copy or quick-scroll listener is ever
\* attached, and clicks on those elements change nothing.
C10_MissingTocAborts ==
    /\ [][pc' # pc => <<pc, pc'>> \in MainOrder]_vars
    /\ [](dom["toc"] = "none" => pc \in {"initThemeToggle", "initTocSpy", "threw"})
    /\ [](pc = "threw" =>
            /\ dataTheme \in {"light", "dark"}
            /\ (dom["toggleTheme"] = "button" => "toggleTheme" \in listeners)
            /\ listeners \subseteq {"toggleTheme"})
    /\ [][pc = "threw" =>
            /\ UNCHANGED <<accVars, copyVars, listeners, pc>>
            /\ ev'.scrolled = "none"
            /\ (ev'.kind = "click" /\ ev'.target # "toggleTheme") =>
                 UNCHANGED <<themeVars, toastVars, tocVars>>]_vars

\* After the abort the theme toggle still worked and a click on an accordion
\* trigger was ignored.
C10_Witness ==
    /\ pc = "threw"
    /\ TriggerClicked(ev, 1)
    /\ aria[1] = "false"
    /\ storage = "dark"
    /\ dataTheme = "dark"

====
